---------------------------- MODULE Spec2Model ----------------------------
(***************************************************************************)
(* A model of envfmt: the parameter bag and its paginated fetch            *)
(* (src/params.rs), the bag built for write-back (src/main.rs,             *)
(* src/writer/mod.rs), the two formatters (src/formatter/mod.rs), the      *)
(* profile-chain resolution and the credential load of the MFA provider    *)
(* (src/mfa.rs), and main as a whole (src/main.rs).                        *)
(*                                                                         *)
(* A Rust String is a sequence of characters, each character a one-letter  *)
(* TLA+ string.  An Option<T> is a sequence of length at most one: None is *)
(* <<>> and Some(x) is <<x>>.                                              *)
(***************************************************************************)
EXTENDS Naturals, Sequences, FiniteSets

VARIABLES
    \* main / get_all_params_for_path / Writer::write
    opts, pc, bag, requests, responses, result, puts, stdout,
    \* the string functions normalize_path and to_env_name
    fn, arg, ret, ret2,
    \* AssumeRoleWithMFATokenProviderRequest::from_profile_set
    profile_name, set, rpc, cur, depth, tailCall, source, request,
    \* main's configuration and AssumeRoleWithMFATokenProvider::provide_credentials
    store, discovered, conf, sts, cpc, mfa_token, role_output, load, cached, readers,
    \* the calls that reached a remote service, the output file and the exit
    remote, file, exit

mainVars == <<opts, pc, bag, requests, responses, result, puts, stdout>>
fnVars == <<fn, arg, ret, ret2>>
mfaVars == <<profile_name, set, rpc, cur, depth, tailCall, source, request>>
credVars == <<store, discovered, conf, sts, cpc, mfa_token, role_output, load, cached, readers>>
outVars == <<file, exit>>
runVars == <<credVars, remote, outVars>>
vars == <<mainVars, fnVars, mfaVars, runVars>>

None == <<>>
Some(x) == <<x>>
\* A Result<T, E>: Ok(x), or Err with the error's text dropped.
Ok(x) == [ok |-> TRUE, val |-> <<x>>]
Err == [ok |-> FALSE, val |-> <<>>]
is_some(o) == Len(o) = 1
is_none(o) == Len(o) = 0
unwrap(o) == o[1]

---------------------------------------------------------------------------
(* Strings *)

\* The characters of the model: the path separator, two ASCII letters in
\* both cases, and one letter that takes two bytes in UTF-8 and whose upper
\* case is two characters.
Char == {"/", "a", "b", "A", "B", "S", "ß"}

\* Length of the UTF-8 encoding of a character.
ByteLen(c) == IF c = "ß" THEN 2 ELSE 1

\* char::to_uppercase, a string of one or more characters.
UpperChar(c) ==
    CASE c = "a" -> <<"A">>
      [] c = "b" -> <<"B">>
      [] c = "ß" -> <<"S", "S">>
      [] OTHER -> <<c>>

\* char::to_lowercase.
LowerChar(c) ==
    CASE c = "A" -> <<"a">>
      [] c = "B" -> <<"b">>
      [] c = "S" -> <<"s">>
      [] OTHER -> <<c>>

RECURSIVE to_uppercase(_)
to_uppercase(s) ==
    IF s = <<>> THEN <<>> ELSE UpperChar(Head(s)) \o to_uppercase(Tail(s))

RECURSIVE to_lowercase(_)
to_lowercase(s) ==
    IF s = <<>> THEN <<>> ELSE LowerChar(Head(s)) \o to_lowercase(Tail(s))

\* Byte offset at which the i-th character of s starts (i in 1..Len(s)+1;
\* the offset of Len(s)+1 is the byte length of s).
RECURSIVE ByteOffset(_, _)
ByteOffset(s, i) ==
    IF i = 1 THEN 0 ELSE ByteOffset(s, i - 1) + ByteLen(s[i - 1])

\* str::rfind(ch): the byte offset of the last occurrence, as an Option.
rfind(s, ch) ==
    LET hits == {i \in 1..Len(s) : s[i] = ch}
    IN  IF hits = {} THEN None
        ELSE Some(ByteOffset(s, CHOOSE i \in hits : \A j \in hits : j <= i))

unwrap_or(o, d) == IF is_some(o) THEN unwrap(o) ELSE d

\* A function returns [panic |-> FALSE, val |-> v], or panics.
Returned(v) == [panic |-> FALSE, val |-> v]
Panicked == [panic |-> TRUE, val |-> <<>>]

\* &s[start..]: the characters from byte offset start on; panics when start
\* is past the end or is not a character boundary.
SliceFrom(s, start) ==
    LET at == {i \in 1..(Len(s) + 1) : ByteOffset(s, i) = start}
    IN  IF at = {} THEN Panicked
        ELSE Returned(SubSeq(s, CHOOSE i \in at : TRUE, Len(s)))

\* A normalize_path that roots every path, rooted or not.
normalize_path_always_prepends(path) == <<"/">> \o path

normalize_path(path) ==
    IF Len(path) > 0 /\ path[1] = "/" THEN path ELSE <<"/">> \o path

to_env_name(name) ==
    LET tail == SliceFrom(name, unwrap_or(rfind(name, "/"), 0) + 1)
    IN  IF tail.panic THEN Panicked ELSE Returned(to_uppercase(tail.val))

---------------------------------------------------------------------------
(* Bounds *)

\* Longest string given to normalize_path and to_env_name.
MaxStrLen == 3

RECURSIVE StringsUpTo(_)
StringsUpTo(n) ==
    IF n = 0 THEN {<<>>}
    ELSE LET shorter == StringsUpTo(n - 1)
         IN  shorter \cup {Append(s, c) : s \in shorter, c \in {"/", "a", "b", "ß"}}

Strings == StringsUpTo(MaxStrLen)

---------------------------------------------------------------------------
(* The idle values of each part, held while another part runs *)

MainIdle ==
    /\ opts = "none" /\ pc = "idle" /\ bag = None /\ requests = <<>>
    /\ responses = <<>> /\ result = None /\ puts = <<>> /\ stdout = <<>>

FnIdle == fn = "none" /\ arg = <<>> /\ ret = None /\ ret2 = None

MfaIdle ==
    /\ profile_name = "none" /\ set = <<>> /\ rpc = "idle" /\ cur = None
    /\ depth = 0 /\ tailCall = FALSE /\ source = None /\ request = None

RunIdle ==
    /\ store = None /\ discovered = None /\ conf = None /\ sts = None
    /\ cpc = "idle" /\ mfa_token = None /\ role_output = None /\ load = None
    /\ cached = None /\ readers = 0 /\ remote = <<>> /\ file = None
    /\ exit = None

---------------------------------------------------------------------------
(* normalize_path and to_env_name applied to every bounded string *)

InitNames ==
    /\ fn \in {"normalize_path", "to_env_name"}
    /\ arg \in Strings
    /\ ret = None
    /\ ret2 = None
    /\ MainIdle
    /\ MfaIdle
    /\ RunIdle

\* ParamBag::new's call of normalize_path.
CallNormalizePath ==
    /\ fn = "normalize_path" /\ ret = None
    /\ ret' = Some(Returned(normalize_path(arg)))
    /\ UNCHANGED <<fn, arg, ret2, mainVars, mfaVars, runVars>>

\* normalize_path applied to a path that was already normalized.
CallNormalizePathAgain ==
    /\ fn = "normalize_path" /\ is_some(ret) /\ ret2 = None
    /\ ret2' = Some(Returned(normalize_path(unwrap(ret).val)))
    /\ UNCHANGED <<fn, arg, ret, mainVars, mfaVars, runVars>>

\* get_params' call of to_env_name.
CallToEnvName ==
    /\ fn = "to_env_name" /\ ret = None
    /\ ret' = Some(to_env_name(arg))
    /\ UNCHANGED <<fn, arg, ret2, mainVars, mfaVars, runVars>>

NextNames == CallNormalizePath \/ CallNormalizePathAgain \/ CallToEnvName

SpecNames == InitNames /\ [][NextNames]_vars

---------------------------------------------------------------------------
(* main: the read of a path and the write-back of a local file *)

\* Most page requests of one fetch the model follows.
MaxPages == 3
\* Most entries the page responses of one fetch hold together.
MaxEntries == 3
\* Most lines of the local file of a write.
MaxLines == 2

\* Paths and prefixes given on the command line.
Paths == {<<"a">>, <<"/", "a">>}
\* Continuation tokens of the remote store.
Tokens == {"t1", "t2"}
\* A Parameter of a page response: name and value are both optional, and a
\* name is the fully-qualified path of a remote parameter.
Parameters ==
    {[name |-> Some(<<"/", "a", "/", "b">>), value |-> Some(<<"x">>)],
     [name |-> Some(<<"/", "a", "/", "a">>), value |-> Some(<<"y">>)],
     [name |-> None, value |-> Some(<<"x">>)],
     [name |-> Some(<<"/", "a", "/", "b">>), value |-> None]}

RECURSIVE SeqsUpTo(_, _)
SeqsUpTo(S, n) ==
    IF n = 0 THEN {<<>>}
    ELSE LET shorter == SeqsUpTo(S, n - 1)
         IN  shorter \cup {Append(s, x) : s \in shorter, x \in S}

\* GetParametersByPathOutput: parameters: Option<Vec<Parameter>> and
\* next_token: Option<String>; the responses of at most n entries.
Responses(n) ==
    [parameters : {None} \cup {Some(l) : l \in SeqsUpTo(Parameters, n)},
     next_token : {None} \cup {Some(t) : t \in Tokens}]

\* The number of entries the responses rs hold.
RECURSIVE EntriesIn(_)
EntriesIn(rs) ==
    IF rs = <<>> THEN 0
    ELSE (IF Head(rs).ok /\ is_some(unwrap(Head(rs).val).parameters)
          THEN Len(unwrap(unwrap(Head(rs).val).parameters))
          ELSE 0) + EntriesIn(Tail(rs))

\* The items the dotenv iterator yields for a local file: a (key, value)
\* pair, or an error for a line it cannot parse.
Lines ==
    {Ok([key |-> <<"A">>, value |-> <<"x">>]), Ok([key |-> <<"B">>, value |-> <<"y">>]),
     Err}

\* The command line: a read of a path, or a write of a file (None when the
\* file cannot be opened) under an optional prefix.
Options ==
    [command : {"Read"}, path : Paths]
    \cup [command : {"Write"}, prefix : {None} \cup {Some(p) : p \in Paths},
          file : {None} \cup {Some(l) : l \in SeqsUpTo(Lines, MaxLines)},
          overwrite : BOOLEAN]

Param(key, value) == [key |-> key, value |-> value]

ParamBag_new(path) ==
    [prefix |-> normalize_path(path), params |-> <<>>, next |-> None]

\* filter_map(|item| item.ok()).map(|(key, value)| Param { key, value })
RECURSIVE dotenv_params(_)
dotenv_params(items) ==
    IF items = <<>> THEN <<>>
    ELSE (IF Head(items).ok
          THEN <<Param(unwrap(Head(items).val).key, unwrap(Head(items).val).value)>>
          ELSE <<>>) \o dotenv_params(Tail(items))

ParamBag_from_dotenv(items, prefix) ==
    [prefix |-> prefix, params |-> dotenv_params(items), next |-> None]

\* A push that adds nothing of a page that holds an incomplete entry.
push_params_drops_page(parameters) ==
    IF \E i \in 1..Len(parameters) :
           is_none(parameters[i].name) \/ is_none(parameters[i].value)
    THEN <<>>
    ELSE [i \in 1..Len(parameters) |->
             Param(to_env_name(unwrap(parameters[i].name)).val,
                   unwrap(parameters[i].value))]

\* The params one response adds to a bag: one per parameter that has both a
\* name and a value, in the response's order.
RECURSIVE push_params(_)
push_params(parameters) ==
    IF parameters = <<>> THEN <<>>
    ELSE (IF is_some(Head(parameters).name) /\ is_some(Head(parameters).value)
          THEN <<Param(to_env_name(unwrap(Head(parameters).name)).val,
                       unwrap(Head(parameters).value))>>
          ELSE <<>>) \o push_params(Tail(parameters))

\* The request get_params sends for a bag.
get_parameters_by_path(b) == [path |-> b.prefix, next_token |-> b.next]

\* A get_params that puts a page's params before the ones already held.
get_params_prepends(b, resp) ==
    [prefix |-> b.prefix,
     params |-> (IF is_some(resp.parameters)
                 THEN push_params(unwrap(resp.parameters))
                 ELSE <<>>) \o b.params,
     next |-> resp.next_token]

\* A get_params that keeps the cursor the bag already holds.
get_params_keeps_cursor(b, resp) ==
    [prefix |-> b.prefix,
     params |-> b.params \o (IF is_some(resp.parameters)
                              THEN push_params(unwrap(resp.parameters))
                              ELSE <<>>),
     next |-> IF is_some(b.next) THEN b.next ELSE resp.next_token]

\* A get_params whose bag holds the params of the last page only.
get_params_replaces_params(b, resp) ==
    [prefix |-> b.prefix,
     params |-> IF is_some(resp.parameters)
                THEN push_params(unwrap(resp.parameters))
                ELSE <<>>,
     next |-> resp.next_token]

\* get_params on a response that arrived: the bag it returns.
get_params(b, resp) ==
    [prefix |-> b.prefix,
     params |-> b.params \o (IF is_some(resp.parameters)
                              THEN push_params(unwrap(resp.parameters))
                              ELSE <<>>),
     next |-> resp.next_token]

\* A loop that ends after the second page at the latest.
loop_breaks_after_two(b) == is_none(b.next) \/ Len(requests) >= 1

\* The loop of get_all_params_for_path ends on a bag without a cursor.
loop_breaks(b) == is_none(b.next)

\* aws_config::load_from_env: the region the default chain discovers and
\* the credentials of the environment.
load_from_env(region) == [region |-> region, provider |-> "env"]

\* A client that sends its requests without credentials.
CanSend_unsigned ==
    /\ cpc = "idle"
    /\ is_some(unwrap(conf).region)

\* A request of the client can be signed and sent: no load of credentials
\* is under way, the configuration holds a region, and the credentials are
\* those of the environment or the ones the lazy provider has cached.
CanSend ==
    /\ cpc = "idle"
    /\ is_some(unwrap(conf).region)
    /\ unwrap(conf).provider = "env" \/ is_some(cached)

\* main from its match on the command, with the configuration of
\* load_from_env in a region.
Init ==
    /\ opts \in Options
    /\ pc = "main"
    /\ bag = None
    /\ requests = <<>>
    /\ responses = <<>>
    /\ result = None
    /\ puts = <<>>
    /\ stdout = <<>>
    /\ store = Some([pages |-> MaxPages, entries |-> MaxEntries])
    /\ discovered = Some("eu-west-1")
    /\ conf = Some(load_from_env(discovered))
    /\ sts = None /\ cpc = "idle" /\ mfa_token = None /\ role_output = None
    /\ load = None /\ cached = None /\ readers = 0
    /\ remote = <<>> /\ file = None /\ exit = None
    /\ FnIdle
    /\ MfaIdle

\* Command::Read: get_all_params_for_path creates the empty bag.
ReadStart ==
    /\ pc = "main" /\ opts.command = "Read"
    /\ bag' = Some(ParamBag_new(opts.path))
    /\ pc' = "process"
    /\ UNCHANGED <<opts, requests, responses, result, puts, stdout, fnVars, mfaVars, runVars>>

\* One turn of the loop: the page request is answered, the bag takes the
\* response, and the loop ends when the bag holds no cursor.
FetchPage ==
    /\ pc = "process" /\ Len(requests) < unwrap(store).pages
    /\ CanSend
    /\ remote' = Append(remote, "GetParametersByPath")
    /\ \E resp \in Responses(unwrap(store).entries - EntriesIn(responses)) :
        LET b == get_params(unwrap(bag), resp)
        IN  /\ requests' = Append(requests, get_parameters_by_path(unwrap(bag)))
            /\ responses' = Append(responses, Ok(resp))
            /\ bag' = Some(b)
            /\ IF loop_breaks(b)
               THEN pc' = "done" /\ result' = Some(Ok(b))
               ELSE pc' = "process" /\ result' = result
    /\ UNCHANGED <<opts, puts, stdout, fnVars, mfaVars, credVars, outVars>>

\* A failed page request that ends the fetch with the params held so far.
FetchPageFails_returns_partial ==
    /\ pc = "process" /\ Len(requests) < unwrap(store).pages
    /\ CanSend
    /\ remote' = Append(remote, "GetParametersByPath")
    /\ requests' = Append(requests, get_parameters_by_path(unwrap(bag)))
    /\ responses' = Append(responses, Err)
    /\ bag' = bag
    /\ pc' = "done"
    /\ result' = Some(Ok(unwrap(bag)))
    /\ UNCHANGED <<opts, puts, stdout, fnVars, mfaVars, credVars, outVars>>

\* One turn of the loop whose page request fails: `?` returns the error and
\* the bag, moved into process, is dropped.
FetchPageFails ==
    /\ pc = "process" /\ Len(requests) < unwrap(store).pages
    /\ CanSend
    /\ remote' = Append(remote, "GetParametersByPath")
    /\ requests' = Append(requests, get_parameters_by_path(unwrap(bag)))
    /\ responses' = Append(responses, Err)
    /\ bag' = None
    /\ pc' = "failed"
    /\ result' = Some(Err)
    /\ UNCHANGED <<opts, puts, stdout, fnVars, mfaVars, credVars, outVars>>

\* Command::Write: Writer::new, then ParamBag::from_dotenv, whose unwrap
\* panics when the file cannot be opened.
WriteStart ==
    /\ pc = "main" /\ opts.command = "Write"
    /\ IF is_some(opts.file)
       THEN /\ bag' = Some(ParamBag_from_dotenv(unwrap(opts.file),
                                                unwrap_or(opts.prefix, <<>>)))
            /\ pc' = "write"
       ELSE /\ bag' = None
            /\ pc' = "panicked"
    /\ UNCHANGED <<opts, requests, responses, result, puts, stdout, fnVars, mfaVars, runVars>>

\* A name that keeps the case of the param's key.
put_name_keeps_case(b, param) == b.prefix \o <<"/">> \o param.key

\* The name Writer::write puts a param under.
put_name(b, param) == b.prefix \o <<"/">> \o to_lowercase(param.key)

\* A turn of Writer::write that returns when the remote store rejects the
\* put.
PutParameter_halts_on_failure ==
    /\ pc = "write" /\ Len(puts) < Len(unwrap(bag).params)
    /\ CanSend
    /\ remote' = Append(remote, "PutParameter")
    /\ \E accepted \in BOOLEAN :
        LET b == unwrap(bag)
            param == b.params[Len(puts) + 1]
        IN  /\ puts' = Append(puts, [name |-> put_name(b, param),
                                     overwrite |-> opts.overwrite,
                                     value |-> param.value])
            /\ stdout' = Append(stdout,
                    [line |-> IF accepted THEN "Wrote" ELSE "Failed to write",
                     name |-> put_name(b, param)])
            /\ pc' = IF accepted THEN "sleep" ELSE "written"
    /\ UNCHANGED <<opts, bag, requests, responses, result, fnVars, mfaVars,
                   credVars, outVars>>

\* A turn of Writer::write that goes on to the next put without a sleep.
PutParameter_without_sleep ==
    /\ pc = "write" /\ Len(puts) < Len(unwrap(bag).params)
    /\ CanSend
    /\ remote' = Append(remote, "PutParameter")
    /\ \E accepted \in BOOLEAN :
        LET b == unwrap(bag)
            param == b.params[Len(puts) + 1]
        IN  /\ puts' = Append(puts, [name |-> put_name(b, param),
                                     overwrite |-> opts.overwrite,
                                     value |-> param.value])
            /\ stdout' = Append(stdout,
                    [line |-> IF accepted THEN "Wrote" ELSE "Failed to write",
                     name |-> put_name(b, param)])
    /\ pc' = "write"
    /\ UNCHANGED <<opts, bag, requests, responses, result, fnVars, mfaVars,
                   credVars, outVars>>

\* One turn of Writer::write up to its sleep: the put of the next param,
\* accepted or rejected by the remote store, and the line printed for it.
PutParameter ==
    /\ pc = "write" /\ Len(puts) < Len(unwrap(bag).params)
    /\ CanSend
    /\ remote' = Append(remote, "PutParameter")
    /\ \E accepted \in BOOLEAN :
        LET b == unwrap(bag)
            param == b.params[Len(puts) + 1]
        IN  /\ puts' = Append(puts, [name |-> put_name(b, param),
                                     overwrite |-> opts.overwrite,
                                     value |-> param.value])
            /\ stdout' = Append(stdout,
                    [line |-> IF accepted THEN "Wrote" ELSE "Failed to write",
                     name |-> put_name(b, param)])
    /\ pc' = "sleep"
    /\ UNCHANGED <<opts, bag, requests, responses, result, fnVars, mfaVars,
                   credVars, outVars>>

\* tokio::time::sleep of 200 ms after each put.
Sleep ==
    /\ pc = "sleep"
    /\ pc' = "write"
    /\ UNCHANGED <<opts, bag, requests, responses, result, puts, stdout, fnVars, mfaVars, runVars>>

\* Writer::write returns after the last param.
WriteReturn ==
    /\ pc = "write" /\ Len(puts) = Len(unwrap(bag).params)
    /\ pc' = "written"
    /\ UNCHANGED <<opts, bag, requests, responses, result, puts, stdout, fnVars, mfaVars, runVars>>

Next ==
    \/ ReadStart
    \/ FetchPage
    \/ FetchPageFails
    \/ WriteStart
    \/ PutParameter
    \/ Sleep
    \/ WriteReturn

Spec == Init /\ [][Next]_vars

---------------------------------------------------------------------------
(* formatter: DotEnv and PhpFpm applied to bounded param sequences *)

\* Most params of a sequence given to a formatter.
MaxParams == 2

\* char::is_whitespace for the characters of the model.
is_whitespace(c) == c \in {" ", "\n", "\t"}

\* A trim that removes nothing.
trim_keeps_all(s) == s

\* str::trim: the string without its leading and trailing whitespace.
trim(s) ==
    LET solid == {i \in 1..Len(s) : ~is_whitespace(s[i])}
    IN  IF solid = {} THEN <<>>
        ELSE SubSeq(s, CHOOSE i \in solid : \A j \in solid : i <= j,
                       CHOOSE i \in solid : \A j \in solid : i >= j)

\* DotEnv::fmt up to its trim: p.key + "=" + "\"" + p.value + "\"\n" for every
\* param, collected into one String.
RECURSIVE DotEnv_collect(_)
DotEnv_collect(params) ==
    IF params = <<>> THEN <<>>
    ELSE Head(params).key \o <<"=">> \o <<"\"">> \o Head(params).value
            \o <<"\"", "\n">> \o DotEnv_collect(Tail(params))

\* DotEnv::fmt: write!(f, "{}", out.trim()).
DotEnv_fmt(params) == trim(DotEnv_collect(params))

\* PhpFpm::fmt up to its trim: "env[" + p.key + "]=" + "\"" + p.value + "\"\n".
RECURSIVE PhpFpm_collect(_)
PhpFpm_collect(params) ==
    IF params = <<>> THEN <<>>
    ELSE <<"e", "n", "v", "[">> \o Head(params).key \o <<"]", "=">> \o <<"\"">>
            \o Head(params).value \o <<"\"", "\n">>
            \o PhpFpm_collect(Tail(params))

\* PhpFpm::fmt: write!(f, "{}", out.trim()).
PhpFpm_fmt(params) == trim(PhpFpm_collect(params))

\* Keys as to_env_name returns them and values of the remote store.
FmtKeys == {<<"A">>, <<"A", "B">>}
FmtValues == {<<>>, <<"x">>, <<"x", " ">>}

InitFormat ==
    /\ fn \in {"DotEnv", "PhpFpm"}
    /\ arg \in SeqsUpTo([key : FmtKeys, value : FmtValues], MaxParams)
    /\ ret = None
    /\ ret2 = None
    /\ MainIdle
    /\ MfaIdle
    /\ RunIdle

\* format!("{}", DotEnv { params }).
CallDotEnv ==
    /\ fn = "DotEnv" /\ ret = None
    /\ ret' = Some(Returned(DotEnv_fmt(arg)))
    /\ UNCHANGED <<fn, arg, ret2, mainVars, mfaVars, runVars>>

\* format!("{}", PhpFpm { params }).
CallPhpFpm ==
    /\ fn = "PhpFpm" /\ ret = None
    /\ ret' = Some(Returned(PhpFpm_fmt(arg)))
    /\ UNCHANGED <<fn, arg, ret2, mainVars, mfaVars, runVars>>

NextFormat == CallDotEnv \/ CallPhpFpm

SpecFormat == InitFormat /\ [][NextFormat]_vars

---------------------------------------------------------------------------
(* mfa: AssumeRoleWithMFATokenProviderRequest::from_profile_set *)

\* Stack frames get_source_profile may hold before the stack overflows; more
\* than there are profiles, so that only a cyclic chain exhausts them.
MaxFrames == 4

\* The profile names of the local configuration.  "default" is the profile
\* provide_credentials names when no profile is given.
ProfileNames == {"default", "mid", "base"}

\* The value profile n gives field f: no two profiles share a value.
ValueOf(n, f) == <<n, f>>

\* The Profiles a name may stand for: each field present or absent, and
\* source_profile naming any profile or absent.
ProfilesNamed(n) ==
    [role_arn : {None, Some(ValueOf(n, "role_arn"))},
     aws_access_key_id : {None, Some(ValueOf(n, "aws_access_key_id"))},
     aws_secret_access_key : {None, Some(ValueOf(n, "aws_secret_access_key"))},
     mfa_serial : {None, Some(ValueOf(n, "mfa_serial"))},
     source_profile : {None} \cup {Some(m) : m \in ProfileNames}]

\* What the configuration holds under name n: nothing, or a profile.
OptionalProfile(n) == {None} \cup {Some(p) : p \in ProfilesNamed(n)}

\* ProfileSet::get_profile: None for a name the configuration does not hold.
get_profile(s, name) == s[name]

\* Profile::get.
get(profile, field) == profile[field]

\* An extract_field that looks at the first profile only.
extract_field_first_only(field, profiles) ==
    IF profiles = <<>> THEN None ELSE get(Head(profiles), field)

\* extract_field: the value of the first of the profiles that defines field.
RECURSIVE extract_field(_, _)
extract_field(field, profiles) ==
    IF profiles = <<>> THEN None
    ELSE IF is_some(get(Head(profiles), field)) THEN get(Head(profiles), field)
    ELSE extract_field(field, Tail(profiles))

Failed(msg) == [ok |-> FALSE, val |-> <<>>, err |-> msg]

\* AssumeRoleWithMFATokenProviderRequest::new.
Request(role, key, secret, mfa_serial) ==
    [role |-> role, key |-> key, secret |-> secret, mfa_serial |-> mfa_serial]

\* A from_profile_set that takes the role from the source profile when the
\* named profile has none.
from_profile_set_role_from_source(profile, src) ==
    IF is_some(profile) /\ is_some(src)
    THEN LET profiles == <<unwrap(profile), unwrap(src)>>
             role == extract_field("role_arn", profiles)
             key == extract_field("aws_access_key_id", profiles)
             secret == extract_field("aws_secret_access_key", profiles)
             mfa_serial == get(unwrap(profile), "mfa_serial")
         IN  IF is_none(role)
             THEN Failed("Failed to find a role to assume in selected profile")
             ELSE IF is_none(key)
             THEN Failed("Failed to find an access key in source profile for selected profile")
             ELSE IF is_none(secret)
             THEN Failed("Failed to find a secret key in source profile for selected profile")
             ELSE IF is_none(mfa_serial)
             THEN Failed("Failed to find a mfa serial to use in selected profile")
             ELSE Ok(Request(unwrap(role), unwrap(key), unwrap(secret),
                             unwrap(mfa_serial)))
    ELSE Failed("Failed to find a profile or source")

\* from_profile_set handing out an empty MFA serial when the named profile
\* defines none.
from_profile_set_defaults_mfa_serial(profile, src) ==
    IF is_some(profile) /\ is_some(src)
    THEN LET profiles == <<unwrap(profile), unwrap(src)>>
             role == get(unwrap(profile), "role_arn")
             key == extract_field("aws_access_key_id", profiles)
             secret == extract_field("aws_secret_access_key", profiles)
             mfa_serial == unwrap_or(get(unwrap(profile), "mfa_serial"), <<>>)
         IN  IF is_none(role)
             THEN Failed("Failed to find a role to assume in selected profile")
             ELSE IF is_none(key)
             THEN Failed("Failed to find an access key in source profile for selected profile")
             ELSE IF is_none(secret)
             THEN Failed("Failed to find a secret key in source profile for selected profile")
             ELSE Ok(Request(unwrap(role), unwrap(key), unwrap(secret), mfa_serial))
    ELSE Failed("Failed to find a profile or source")

\* from_profile_set once both lookups returned: profile is the named profile
\* and src what get_source_profile found, both Options.
from_profile_set(profile, src) ==
    IF is_some(profile) /\ is_some(src)
    THEN LET profiles == <<unwrap(profile), unwrap(src)>>
             role == get(unwrap(profile), "role_arn")
             key == extract_field("aws_access_key_id", profiles)
             secret == extract_field("aws_secret_access_key", profiles)
             mfa_serial == get(unwrap(profile), "mfa_serial")
         IN  IF is_none(role)
             THEN Failed("Failed to find a role to assume in selected profile")
             ELSE IF is_none(key)
             THEN Failed("Failed to find an access key in source profile for selected profile")
             ELSE IF is_none(secret)
             THEN Failed("Failed to find a secret key in source profile for selected profile")
             ELSE IF is_none(mfa_serial)
             THEN Failed("Failed to find a mfa serial to use in selected profile")
             ELSE Ok(Request(unwrap(role), unwrap(key), unwrap(secret),
                             unwrap(mfa_serial)))
    ELSE Failed("Failed to find a profile or source")

\* get_source_profile runs in a new stack frame per hop, or, when the build
\* turned its tail call into a jump, in one frame.
InitMfa ==
    /\ profile_name = "default"
    /\ \E d \in OptionalProfile("default"), m \in OptionalProfile("mid"),
          b \in OptionalProfile("base") :
          set = [n \in ProfileNames |->
                    CASE n = "default" -> d [] n = "mid" -> m [] OTHER -> b]
    /\ tailCall \in BOOLEAN
    /\ rpc = "start"
    /\ cur = None
    /\ depth = 0
    /\ source = None
    /\ request = None
    /\ MainIdle
    /\ FnIdle
    /\ RunIdle

\* from_profile_set looks the named profile up and calls get_source_profile
\* on its name.
ResolveStart ==
    /\ rpc = "start"
    /\ cur' = Some(profile_name)
    /\ depth' = 1
    /\ rpc' = "walk"
    /\ UNCHANGED <<profile_name, set, tailCall, source, request, mainVars, fnVars, runVars>>

\* get_source_profile on a profile that names a source_profile: it calls
\* itself on that name.
FollowSource ==
    /\ rpc = "walk"
    /\ is_some(get_profile(set, unwrap(cur)))
    /\ is_some(get(unwrap(get_profile(set, unwrap(cur))), "source_profile"))
    /\ tailCall \/ depth < MaxFrames
    /\ cur' = get(unwrap(get_profile(set, unwrap(cur))), "source_profile")
    /\ depth' = IF tailCall THEN depth ELSE depth + 1
    /\ UNCHANGED <<profile_name, set, rpc, tailCall, source, request, mainVars, fnVars, runVars>>

\* The call of FollowSource with no stack left: the process is killed.
StackOverflow ==
    /\ rpc = "walk"
    /\ is_some(get_profile(set, unwrap(cur)))
    /\ is_some(get(unwrap(get_profile(set, unwrap(cur))), "source_profile"))
    /\ ~tailCall /\ depth = MaxFrames
    /\ rpc' = "stack_overflow"
    /\ UNCHANGED <<profile_name, set, cur, depth, tailCall, source, request,
                   mainVars, fnVars, runVars>>

\* A get_source_profile that may return a profile that names a
\* source_profile of its own.
ResolveReturn_at_any_profile ==
    /\ rpc = "walk"
    /\ LET p == get_profile(set, unwrap(cur))
       IN  /\ source' = IF is_some(p) THEN cur ELSE None
           /\ request' = Some(from_profile_set(get_profile(set, profile_name), p))
    /\ rpc' = "done"
    /\ depth' = 0
    /\ UNCHANGED <<profile_name, set, cur, tailCall, mainVars, fnVars, runVars>>

\* get_source_profile on a name the configuration does not hold (None) or on
\* a profile without source_profile (that profile); from_profile_set then
\* builds the request from the named profile and the profile returned.
ResolveReturn ==
    /\ rpc = "walk"
    /\ LET p == get_profile(set, unwrap(cur))
       IN  /\ is_some(p) => is_none(get(unwrap(p), "source_profile"))
           /\ source' = IF is_some(p) THEN cur ELSE None
           /\ request' = Some(from_profile_set(get_profile(set, profile_name), p))
    /\ rpc' = "done"
    /\ depth' = 0
    /\ UNCHANGED <<profile_name, set, cur, tailCall, mainVars, fnVars, runVars>>

NextMfa == ResolveStart \/ FollowSource \/ StackOverflow \/ ResolveReturn

SpecMfa == InitMfa /\ [][NextMfa]_vars

---------------------------------------------------------------------------
(* main as a whole: the configuration, the credentials of an MFA run, the *)
(* command and the output                                                  *)

\* Most page requests, entries and lines of the local file of a whole run;
\* store holds how far the pages of the remote store are followed, here
\* and in the fetch on its own.
MaxRunPages == 2
MaxRunEntries == 1
MaxRunLines == 2

\* The local files of a write of a whole run.
RunFiles ==
    {None} \cup {Some(l) : l \in SeqsUpTo({Ok([key |-> <<"A">>, value |-> <<"x">>])},
                                         MaxRunLines)}

\* EnvFmtOpts: mfa and mfa_token exclude each other; a write ignores format
\* and out.
RunOptions ==
    {o \in [command : {"Read"}, path : Paths,
            format : {None, Some("PhpFpm")},
            region : {None, Some("us-west-1")},
            profile : {None},
            mfa : BOOLEAN, mfa_token : {None, Some(<<"1">>)},
            out : {None, Some("out.env")}]
         \cup [command : {"Write"}, prefix : {Some(<<"/", "a">>)},
               file : RunFiles, overwrite : BOOLEAN,
               format : {None},
               region : {None, Some("us-west-1")},
               profile : {None},
               mfa : BOOLEAN, mfa_token : {None, Some(<<"1">>)},
               out : {None}] :
        ~(o.mfa /\ is_some(o.mfa_token))}

\* What the user types at the prompt: a line, the end of the input, or a
\* read that fails.
Inputs == {Ok(<<" ", "1", "\n">>), Ok(<<>>), Err}

\* AssumeRoleOutput::credentials: an optional block whose access key and
\* secret key are each optional, with a session token.
AssumeRoleOutputs ==
    [credentials :
        {None} \cup {Some(c) : c \in [access_key_id : {None, Some("ASIA")},
                                      secret_access_key : {None, Some("wJal")},
                                      session_token : {Some("FwoG")}]}]

\* The configuration main builds for an MFA run: the region of the default
\* chain and the lazy provider around the MFA provider.
mfa_config(region) == [region |-> region, provider |-> "mfa"]

InitRun ==
    /\ opts \in RunOptions
    /\ pc = "start"
    /\ bag = None /\ requests = <<>> /\ responses = <<>> /\ result = None
    /\ puts = <<>> /\ stdout = <<>>
    /\ store = Some([pages |-> MaxRunPages, entries |-> MaxRunEntries])
    /\ discovered \in {None, Some("eu-west-1")}
    /\ conf = None /\ sts = None /\ cpc = "idle" /\ mfa_token = None
    /\ role_output = None /\ load = None /\ cached = None /\ readers = 0
    /\ remote = <<>> /\ file = None /\ exit = None
    /\ profile_name = "default"
    /\ IF opts.mfa \/ is_some(opts.mfa_token)
       THEN /\ \E d \in OptionalProfile("default") :
                  set = [n \in ProfileNames |-> IF n = "default" THEN d ELSE None]
            /\ tailCall \in (IF is_some(get_profile(set, "default"))
                                 /\ is_some(get(unwrap(get_profile(set, "default")),
                                                "source_profile"))
                              THEN BOOLEAN ELSE {FALSE})
       ELSE /\ set = [n \in ProfileNames |-> None]
            /\ tailCall = FALSE
    /\ rpc = "idle" /\ cur = None /\ depth = 0 /\ source = None
    /\ request = None
    /\ FnIdle

\* main up to the client: the configuration of an MFA run when mfa or
\* mfa_token is given, of load_from_env otherwise.
BuildConfig ==
    /\ pc = "start"
    /\ conf' = Some(IF opts.mfa \/ is_some(opts.mfa_token)
                    THEN mfa_config(discovered)
                    ELSE load_from_env(discovered))
    /\ pc' = "main"
    /\ UNCHANGED <<opts, bag, requests, responses, result, puts, stdout, fnVars,
                   mfaVars, store, discovered, sts, cpc, mfa_token, role_output,
                   load, cached, readers, remote, outVars>>

\* A request of the client is waiting to be sent.
RequestPending ==
    \/ pc = "process" /\ Len(requests) < unwrap(store).pages
    \/ pc = "write" /\ Len(puts) < Len(unwrap(bag).params)

\* The lazy provider holds no credentials when a request needs them: it
\* calls provide_credentials, which loads the profile files.
ProvideCredentials ==
    /\ RequestPending
    /\ cpc = "idle" /\ unwrap(conf).provider = "mfa" /\ is_none(cached)
    /\ \E loaded \in BOOLEAN :
         IF loaded
         THEN cpc' = "resolve" /\ rpc' = "start" /\ load' = None
         ELSE cpc' = "failed" /\ rpc' = rpc
              /\ load' = Some(Failed("could not load the profile files"))
    /\ cur' = None /\ depth' = 0 /\ source' = None /\ request' = None
    /\ sts' = None /\ mfa_token' = None /\ role_output' = None
    /\ UNCHANGED <<mainVars, fnVars, profile_name, set, tailCall, store,
                   discovered, conf, cached, readers, remote, outVars>>

\* provide_credentials once from_profile_set returned: `?` returns its
\* error, and a request goes on to the await of the region.
Resolved ==
    /\ cpc = "resolve" /\ rpc = "done"
    /\ IF unwrap(request).ok
       THEN cpc' = "region" /\ load' = load
       ELSE cpc' = "failed" /\ load' = Some(Failed(unwrap(request).err))
    /\ UNCHANGED <<mainVars, fnVars, mfaVars, store, discovered, conf, sts,
                   mfa_token, role_output, cached, readers, remote, outVars>>

\* aws_types::credentials::Credentials::new.
Credentials_new(access_key_id, secret_access_key, session_token, provider_name) ==
    [access_key_id |-> access_key_id, secret_access_key |-> secret_access_key,
     session_token |-> session_token, provider_name |-> provider_name]

\* provide_credentials from the region to the token: the federation client
\* takes the region of the default chain and the keys of the request; the
\* token is self.token, or else a blocking task prints the prompt and
\* reads a line.
DiscoverRegion ==
    /\ cpc = "region"
    /\ sts' = Some([region |-> discovered,
                    credentials |->
                        Credentials_new(unwrap(unwrap(request).val).key,
                                        unwrap(unwrap(request).val).secret,
                                        None, "assumed-role-credentials")])
    /\ IF is_some(opts.mfa_token)
       THEN /\ mfa_token' = opts.mfa_token
            /\ cpc' = "assume"
            /\ UNCHANGED <<stdout, readers>>
       ELSE /\ stdout' = Append(stdout, [line |-> "MFA token is required: "])
            /\ readers' = readers + 1
            /\ cpc' = "prompt"
            /\ UNCHANGED mfa_token
    /\ UNCHANGED <<opts, pc, bag, requests, responses, result, puts, fnVars,
                   mfaVars, store, discovered, conf, role_output, load, cached,
                   remote, outVars>>

\* The blocking task of the load under way reads its line: the token is
\* the line trimmed, and a read that fails fails the load.  The tasks read
\* the terminal one after the other, so this one reads only when no task of
\* an earlier load still waits.
ReadLine ==
    /\ cpc = "prompt" /\ readers = 1
    /\ \E input \in Inputs :
         IF input.ok
         THEN /\ mfa_token' = Some(trim(unwrap(input.val)))
              /\ cpc' = "assume" /\ load' = load
         ELSE /\ mfa_token' = mfa_token
              /\ cpc' = "failed"
              /\ load' = Some(Failed("could not read the token"))
    /\ readers' = 0
    /\ UNCHANGED <<mainVars, fnVars, mfaVars, store, discovered, conf, sts,
                   role_output, cached, remote, outVars>>

\* The blocking task of a load that was given up reads a line; nobody
\* awaits what it returns.
ReadLineLate ==
    /\ readers > (IF cpc = "prompt" THEN 1 ELSE 0)
    /\ readers' = readers - 1
    /\ UNCHANGED <<mainVars, fnVars, mfaVars, store, discovered, conf, sts, cpc,
                   mfa_token, role_output, load, cached, remote, outVars>>

\* The credentials provide_credentials makes of an answer of assume_role:
\* an error without a credential block, and a panic of an unwrap when the
\* block lacks the access key or the secret key.
credentials_of(output) ==
    IF is_none(output.credentials)
    THEN Returned(Failed("Successfully assume role, but not credentials were returned"))
    ELSE LET credentials == unwrap(output.credentials)
         IN  IF is_none(credentials.access_key_id)
                \/ is_none(credentials.secret_access_key)
             THEN Panicked
             ELSE Returned(Ok(Credentials_new(
                      unwrap(credentials.access_key_id),
                      unwrap(credentials.secret_access_key),
                      credentials.session_token, "AssumeRoleWithMFAToken")))

\* assume_role is sent and answered: a rejection fails the load, and an
\* answer gives the credentials the lazy provider caches, the error of a
\* missing credential block, or the panic that ends the process.
AssumeRole ==
    /\ cpc = "assume" /\ is_some(unwrap(sts).region)
    /\ remote' = Append(remote, "AssumeRole")
    /\ \E r \in {Err} \cup {Ok(o) : o \in AssumeRoleOutputs} :
        /\ role_output' = Some(r)
        /\ IF ~r.ok
           THEN /\ cpc' = "failed"
                /\ load' = Some(Failed("assume_role failed"))
                /\ UNCHANGED <<pc, cached, exit>>
           ELSE LET got == credentials_of(unwrap(r.val))
                IN  IF got.panic
                    THEN /\ cpc' = "panicked" /\ pc' = "panicked"
                         /\ exit' = Some("panic")
                         /\ UNCHANGED <<load, cached>>
                    ELSE /\ load' = Some(got.val)
                         /\ cpc' = IF got.val.ok THEN "idle" ELSE "failed"
                         /\ cached' = IF got.val.ok THEN got.val.val ELSE cached
                         /\ UNCHANGED <<pc, exit>>
    /\ UNCHANGED <<opts, bag, requests, responses, result, puts, stdout, fnVars,
                   mfaVars, store, discovered, conf, sts, mfa_token, readers, file>>

\* assume_role of a federation client without a region: the request cannot
\* be built and nothing is sent.
AssumeRoleNotSent ==
    /\ cpc = "assume" /\ is_none(unwrap(sts).region)
    /\ cpc' = "failed"
    /\ load' = Some(Failed("assume_role failed"))
    /\ UNCHANGED <<mainVars, fnVars, mfaVars, store, discovered, conf, sts,
                   mfa_token, role_output, cached, readers, remote, outVars>>

\* A timeout that lets a load at the prompt go on to assume_role with an
\* empty token.
LoadTimeout_goes_on ==
    /\ cpc = "prompt"
    /\ cpc' = "assume"
    /\ mfa_token' = Some(<<>>)
    /\ UNCHANGED <<mainVars, fnVars, mfaVars, store, discovered, conf, sts,
                   role_output, load, cached, readers, remote, outVars>>

\* load_timeout of the lazy provider: the load has lasted 60 s at one of
\* the awaits of provide_credentials (the region, the blocking task of the
\* prompt, assume_role, sent by then or not) and is given up with an error;
\* a blocking task at the prompt keeps waiting for its line.
LoadTimeout ==
    /\ cpc \in {"region", "prompt", "assume"}
    /\ cpc' = "failed"
    /\ load' = Some(Failed("timed out"))
    /\ \E sent \in {FALSE, cpc = "assume" /\ is_some(unwrap(sts).region)} :
         remote' = IF sent THEN Append(remote, "AssumeRole") ELSE remote
    /\ UNCHANGED <<mainVars, fnVars, mfaVars, store, discovered, conf, sts,
                   mfa_token, role_output, cached, readers, outVars>>

\* A request of the client cannot be sent: the load of its credentials
\* failed, or its configuration holds no region.
CannotSend ==
    \/ cpc = "failed"
    \/ cpc = "idle" /\ is_none(unwrap(conf).region)

\* A page request that fails before it is sent and ends the fetch with the
\* params held so far.
FetchPageNotSent_returns_partial ==
    /\ pc = "process" /\ Len(requests) < unwrap(store).pages
    /\ CannotSend
    /\ requests' = Append(requests, get_parameters_by_path(unwrap(bag)))
    /\ responses' = Append(responses, Err)
    /\ bag' = bag
    /\ pc' = "done"
    /\ result' = Some(Ok(unwrap(bag)))
    /\ cpc' = "idle"
    /\ UNCHANGED <<opts, puts, stdout, fnVars, mfaVars, store, discovered, conf,
                   sts, mfa_token, role_output, load, cached, readers, remote,
                   outVars>>

\* One turn of the fetch loop whose page request fails before it is sent.
FetchPageNotSent ==
    /\ pc = "process" /\ Len(requests) < unwrap(store).pages
    /\ CannotSend
    /\ requests' = Append(requests, get_parameters_by_path(unwrap(bag)))
    /\ responses' = Append(responses, Err)
    /\ bag' = None
    /\ pc' = "failed"
    /\ result' = Some(Err)
    /\ cpc' = "idle"
    /\ UNCHANGED <<opts, puts, stdout, fnVars, mfaVars, store, discovered, conf,
                   sts, mfa_token, role_output, load, cached, readers, remote,
                   outVars>>

\* One turn of Writer::write whose put fails before it is sent.
PutParameterNotSent ==
    /\ pc = "write" /\ Len(puts) < Len(unwrap(bag).params)
    /\ CannotSend
    /\ LET b == unwrap(bag)
           param == b.params[Len(puts) + 1]
       IN  /\ puts' = Append(puts, [name |-> put_name(b, param),
                                    overwrite |-> opts.overwrite,
                                    value |-> param.value])
           /\ stdout' = Append(stdout, [line |-> "Failed to write",
                                        name |-> put_name(b, param)])
    /\ pc' = "sleep"
    /\ cpc' = "idle"
    /\ UNCHANGED <<opts, bag, requests, responses, result, fnVars, mfaVars,
                   store, discovered, conf, sts, mfa_token, role_output, load,
                   cached, readers, remote, outVars>>

\* The text main makes of a bag: DotEnv unless the format option names
\* PhpFpm.
formatted(format, b) ==
    IF unwrap_or(format, "DotEnv") = "DotEnv"
    THEN DotEnv_fmt(b.params)
    ELSE PhpFpm_fmt(b.params)

\* Command::Read after a fetch that returned a bag: the formatted bag goes
\* to the file of the out option, or to standard output without it, and
\* main returns Ok; `?` returns the error of a file that cannot be created.
Emit ==
    /\ pc = "done"
    /\ LET text == formatted(opts.format, unwrap(unwrap(result).val))
       IN  IF is_some(opts.out)
           THEN /\ \E created \in BOOLEAN :
                     IF created
                     THEN file' = Some(text) /\ exit' = Some("success")
                     ELSE file' = file /\ exit' = Some("failure")
                /\ stdout' = stdout
           ELSE /\ stdout' = Append(stdout, [line |-> "formatted", text |-> text])
                /\ file' = file
                /\ exit' = Some("success")
    /\ pc' = "returned"
    /\ UNCHANGED <<opts, bag, requests, responses, result, puts, fnVars, mfaVars,
                   credVars, remote>>

\* A main that returns the error of a failed fetch.
ReportFailure_returns_error ==
    /\ pc = "failed"
    /\ stdout' = Append(stdout, [line |-> "Failed to get paramaters"])
    /\ exit' = Some("failure")
    /\ pc' = "returned"
    /\ UNCHANGED <<opts, bag, requests, responses, result, puts, fnVars, mfaVars,
                   credVars, remote, file>>

\* Command::Read after a fetch that failed: nothing is formatted, main
\* prints its notice and returns Ok.
ReportFailure ==
    /\ pc = "failed"
    /\ stdout' = Append(stdout, [line |-> "Failed to get paramaters"])
    /\ exit' = Some("success")
    /\ pc' = "returned"
    /\ UNCHANGED <<opts, bag, requests, responses, result, puts, fnVars, mfaVars,
                   credVars, remote, file>>

\* Command::Write after Writer::write: main returns Ok.
WriteExit ==
    /\ pc = "written"
    /\ exit' = Some("success")
    /\ pc' = "returned"
    /\ UNCHANGED <<opts, bag, requests, responses, result, puts, stdout, fnVars,
                   mfaVars, credVars, remote, file>>

\* The runtime is dropped after main returned: the process ends once no
\* blocking task waits at the prompt any more.
ProcessExit ==
    /\ pc = "returned" /\ readers = 0
    /\ pc' = "exited"
    /\ UNCHANGED <<opts, bag, requests, responses, result, puts, stdout, fnVars,
                   mfaVars, runVars>>

NextRun ==
    \/ BuildConfig
    \/ Next
    \/ ProvideCredentials
    \/ NextMfa
    \/ Resolved
    \/ DiscoverRegion
    \/ ReadLine
    \/ ReadLineLate
    \/ AssumeRole
    \/ AssumeRoleNotSent
    \/ LoadTimeout
    \/ FetchPageNotSent
    \/ PutParameterNotSent
    \/ Emit
    \/ ReportFailure
    \/ WriteExit
    \/ ProcessExit

SpecRun == InitRun /\ [][NextRun]_vars

---------------------------------------------------------------------------
(* C5, C6: the string functions *)

Rooted(p) == Len(p) > 0 /\ Head(p) = "/"

\* The characters after the last '/' of s, all of s when it holds none.
RECURSIVE LastSegment(_)
LastSegment(s) ==
    IF s = <<>> THEN <<>>
    ELSE IF s[Len(s)] = "/" THEN <<>>
    ELSE Append(LastSegment(SubSeq(s, 1, Len(s) - 1)), s[Len(s)])

\* C5: to_env_name returns the upper-cased substring after the last '/' of
\* the name, and the whole name upper-cased when the name holds no '/' (a
\* remote name is not empty).
C5_ToEnvNameIsUpperLastSegment ==
    (fn = "to_env_name" /\ is_some(ret) /\ Len(arg) > 0) =>
        unwrap(ret) = Returned(to_uppercase(LastSegment(arg)))

\* C6: normalize_path returns a rooted path unchanged, prepends '/' to any
\* other path (the empty one included), and normalizing its result again
\* changes nothing.
C6_NormalizePathRootsOnce ==
    (fn = "normalize_path" /\ is_some(ret)) =>
        /\ ~unwrap(ret).panic
        /\ Rooted(arg) => unwrap(ret).val = arg
        /\ ~Rooted(arg) => unwrap(ret).val = <<"/">> \o arg
        /\ is_some(ret2) => unwrap(ret2) = unwrap(ret)

\* An unrooted path has been normalized twice.
C6_Witness ==
    fn = "normalize_path" /\ ~Rooted(arg) /\ is_some(ret2)

---------------------------------------------------------------------------
(* C1-C4, C7: the paginated fetch and the bags main constructs *)

\* The entries of the responses that arrived, in arrival order.
RECURSIVE AllEntries(_)
AllEntries(rs) ==
    IF rs = <<>> THEN <<>>
    ELSE (IF Head(rs).ok /\ is_some(unwrap(Head(rs).val).parameters)
          THEN unwrap(unwrap(Head(rs).val).parameters)
          ELSE <<>>) \o AllEntries(Tail(rs))

HasNameAndValue(e) == is_some(e.name) /\ is_some(e.value)

\* The params of a sequence of entries: one per entry that has a name and a
\* value, keyed by the upper-cased last segment of the name.
ParamsOf(entries) ==
    LET kept == SelectSeq(entries, HasNameAndValue)
    IN  [i \in 1..Len(kept) |->
            Param(to_uppercase(LastSegment(unwrap(kept[i].name))),
                  unwrap(kept[i].value))]

Cursor(r) == unwrap(r.val).next_token

\* C1: a fetch that ends returns a bag whose params are the entries of every
\* page in arrival order, page by page and in each page's own order,
\* neither sorted nor deduplicated, and whose cursor is absent.
C1_FetchConcatenatesPages ==
    pc = "done" =>
        /\ is_some(result) /\ unwrap(result).ok
        /\ unwrap(unwrap(result).val).params = ParamsOf(AllEntries(responses))
        /\ unwrap(unwrap(result).val).next = None
        /\ \A i \in 1..Len(responses) :
              responses[i].ok /\ (is_none(Cursor(responses[i])) <=> i = Len(responses))

\* A fetch of two pages ended: the first page held the keys B and A in that
\* order, the second the key B again.
C1_Witness ==
    /\ pc = "done" /\ Len(responses) = 2
    /\ is_some(unwrap(responses[1].val).parameters)
    /\ Len(unwrap(unwrap(responses[1].val).parameters)) = 2
    /\ LET ps == unwrap(unwrap(result).val).params
       IN  /\ Len(ps) = 3
           /\ ps[1].key = <<"B">> /\ ps[2].key = <<"A">> /\ ps[3].key = <<"B">>

\* C2: the step in which a page request fails ends the fetch with an error
\* that carries no bag, whatever the pages before it held; after it no
\* request is sent, neither the failed one again nor another.
C2_FailedPageAbortsFetch ==
    [][/\ (Len(responses') > Len(responses)
            /\ ~responses'[Len(responses')].ok) =>
               (pc' = "failed" /\ result' = Some(Err) /\ bag' = None)
       /\ (\E i \in 1..Len(responses) : ~responses[i].ok) =>
               (requests' = requests /\ responses' = responses
                /\ result' = result /\ bag' = bag)]_vars

\* The third page failed after two pages that had added params to the bag.
C2_Witness ==
    /\ pc = "failed" /\ Len(requests) = 3
    /\ Len(ParamsOf(AllEntries(SubSeq(responses, 1, 1)))) > 0
    /\ Len(ParamsOf(AllEntries(SubSeq(responses, 2, 2)))) > 0

\* C3: the fetch sends one request per response that carried a cursor and
\* one more: it never goes on after a response without a cursor, and a first
\* response without a cursor ends it after one request.
C3_OneRequestPerCursorPlusOne ==
    /\ opts.command = "Read" =>
        /\ \A i \in 1..(Len(responses) - 1) :
              responses[i].ok /\ is_some(Cursor(responses[i]))
        /\ Len(requests) = Len(responses)
    /\ pc = "done" =>
          Len(requests) = 1 + Cardinality({i \in 1..Len(responses) :
                                             is_some(Cursor(responses[i]))})
    /\ (Len(responses) >= 1 /\ responses[1].ok /\ is_none(Cursor(responses[1])))
          => (pc = "done" /\ Len(requests) = 1)
    /\ (pc = "process" /\ Len(responses) >= 1) =>
          is_some(Cursor(responses[Len(responses)]))

\* The first response carried no cursor and the fetch has ended.
C3_Witness ==
    pc = "done" /\ Len(requests) = 1 /\ is_none(Cursor(responses[1]))

\* C4: the first request carries no cursor, every later request carries the
\* cursor of the response just before it, and after a page the bag's cursor
\* is the cursor of that page's response.
C4_RequestCarriesLastCursor ==
    /\ Len(requests) >= 1 => requests[1].next_token = None
    /\ \A i \in 2..Len(requests) :
          responses[i - 1].ok /\ requests[i].next_token = Cursor(responses[i - 1])
    /\ (Len(responses) >= 1 /\ responses[Len(responses)].ok) =>
          (is_some(bag) /\ unwrap(bag).next = Cursor(responses[Len(responses)]))

\* Three requests were sent and the first two responses carried different
\* cursors.
C4_Witness ==
    /\ Len(requests) = 3 /\ Len(responses) = 3 /\ responses[3].ok
    /\ Cursor(responses[1]) # Cursor(responses[2])

\* C7: every bag main holds, built by ParamBag::new or by
\* ParamBag::from_dotenv or returned by a page fetch, has a prefix that
\* begins with '/'.
C7_EveryBagPrefixIsRooted ==
    /\ is_some(bag) => Rooted(unwrap(bag).prefix)
    /\ (is_some(result) /\ unwrap(result).ok) =>
          Rooted(unwrap(unwrap(result).val).prefix)

---------------------------------------------------------------------------
(* C8-C10: the profile chain *)

\* The names of the source_profile chain that starts at n, the root last;
\* <<>> when the chain meets a missing profile or a profile it has seen.
RECURSIVE ChainFrom(_, _)
ChainFrom(n, seen) ==
    IF n \in seen \/ is_none(set[n]) THEN <<>>
    ELSE IF is_none(unwrap(set[n]).source_profile) THEN <<n>>
    ELSE LET rest == ChainFrom(unwrap(unwrap(set[n]).source_profile), seen \cup {n})
         IN  IF rest = <<>> THEN <<>> ELSE <<n>> \o rest

Chain == ChainFrom(profile_name, {})

\* The chain meets a profile twice.
RECURSIVE CyclicFrom(_, _)
CyclicFrom(n, seen) ==
    IF n \in seen THEN TRUE
    ELSE IF is_none(set[n]) \/ is_none(unwrap(set[n]).source_profile) THEN FALSE
    ELSE CyclicFrom(unwrap(unwrap(set[n]).source_profile), seen \cup {n})

Leaf == unwrap(set[profile_name])
Root == unwrap(set[Chain[Len(Chain)]])

\* A well-formed chain: it ends in a root that holds both keys, and its leaf
\* names a role and an MFA serial.
WellFormedChain ==
    /\ Chain # <<>>
    /\ is_some(Root.aws_access_key_id) /\ is_some(Root.aws_secret_access_key)
    /\ is_some(Leaf.role_arn) /\ is_some(Leaf.mfa_serial)

\* C8 as stated: on a well-formed chain the request holds the root's access
\* key and secret key and the leaf's role ARN and MFA serial.
C8_RequestHoldsRootKeys ==
    (rpc = "done" /\ WellFormedChain) =>
        request = Some(Ok(Request(unwrap(Leaf.role_arn),
                                  unwrap(Root.aws_access_key_id),
                                  unwrap(Root.aws_secret_access_key),
                                  unwrap(Leaf.mfa_serial))))

\* C8 as amended: on a well-formed chain of any length the request holds
\* the leaf's role ARN and MFA serial and, for the access key and for the
\* secret key, the leaf's own value when the leaf defines it and the root's
\* otherwise.
C8_RequestHoldsLeafThenRootKeys ==
    (rpc \in {"done", "stack_overflow"} /\ WellFormedChain) =>
        request = Some(Ok(Request(
            unwrap(Leaf.role_arn),
            IF is_some(Leaf.aws_access_key_id)
            THEN unwrap(Leaf.aws_access_key_id)
            ELSE unwrap(Root.aws_access_key_id),
            IF is_some(Leaf.aws_secret_access_key)
            THEN unwrap(Leaf.aws_secret_access_key)
            ELSE unwrap(Root.aws_secret_access_key),
            unwrap(Leaf.mfa_serial))))

\* A chain of three profiles was resolved to the keys of its root.
C8_Witness ==
    /\ rpc = "done" /\ WellFormedChain /\ Len(Chain) = 3
    /\ is_some(request) /\ unwrap(request).ok
    /\ unwrap(unwrap(request).val).key = ValueOf(Chain[3], "aws_access_key_id")
    /\ unwrap(unwrap(request).val).secret = ValueOf(Chain[3], "aws_secret_access_key")

\* C9: a cyclic chain ends the resolution with an error: the walk neither
\* exhausts the stack nor returns anything else.
C9_CyclicChainFails ==
    CyclicFrom(profile_name, {}) =>
        /\ rpc # "stack_overflow"
        /\ rpc = "done" => (is_some(request) /\ ~unwrap(request).ok)

\* The first of the two Options that is defined.
FirstOf(a, b) == IF is_some(a) THEN a ELSE b

\* C10: with the named profile and the resolved root at hand, the access
\* key and the secret key are each the named profile's when it defines the
\* field and the root's otherwise; the role ARN and the MFA serial are the
\* named profile's alone, and the request is built exactly when all four are
\* found.
C10_KeysFromNamedThenRoot ==
    (rpc = "done" /\ is_some(set[profile_name]) /\ is_some(source)) =>
        LET named == unwrap(set[profile_name])
            root == unwrap(set[unwrap(source)])
            key == FirstOf(named.aws_access_key_id, root.aws_access_key_id)
            secret == FirstOf(named.aws_secret_access_key, root.aws_secret_access_key)
        IN  /\ is_some(request)
            /\ unwrap(request).ok <=>
                  (/\ is_some(named.role_arn) /\ is_some(named.mfa_serial)
                   /\ is_some(key) /\ is_some(secret))
            /\ unwrap(request).ok =>
                  unwrap(unwrap(request).val) =
                      Request(unwrap(named.role_arn), unwrap(key), unwrap(secret),
                              unwrap(named.mfa_serial))

\* A request was built with the named profile's access key and the root's
\* secret key, the root holding a role, an MFA serial and both keys of its
\* own.
C10_Witness ==
    /\ rpc = "done" /\ is_some(request) /\ unwrap(request).ok
    /\ is_some(source) /\ unwrap(source) # profile_name
    /\ LET root == unwrap(set[unwrap(source)])
       IN  /\ is_some(root.role_arn) /\ is_some(root.mfa_serial)
           /\ is_some(root.aws_access_key_id) /\ is_some(root.aws_secret_access_key)
    /\ unwrap(unwrap(request).val).key = ValueOf(profile_name, "aws_access_key_id")
    /\ unwrap(unwrap(request).val).secret = ValueOf(unwrap(source), "aws_secret_access_key")

---------------------------------------------------------------------------
(* C11: the errors of from_profile_set *)

\* The four values a request needs as the chain provides them: the role ARN
\* and the MFA serial of the named profile, each key of the named profile
\* or else of the root.
Found ==
    [role |-> Leaf.role_arn,
     key |-> FirstOf(Leaf.aws_access_key_id, Root.aws_access_key_id),
     secret |-> FirstOf(Leaf.aws_secret_access_key, Root.aws_secret_access_key),
     mfa_serial |-> Leaf.mfa_serial]

\* The error that names a field.
ErrorNaming(f) ==
    CASE f = "role" -> "Failed to find a role to assume in selected profile"
      [] f = "key" -> "Failed to find an access key in source profile for selected profile"
      [] f = "secret" -> "Failed to find a secret key in source profile for selected profile"
      [] OTHER -> "Failed to find a mfa serial to use in selected profile"

\* The values the profiles of the configuration define.
DefinedValues ==
    {ValueOf(n, f) : n \in ProfileNames,
                     f \in {"role_arn", "aws_access_key_id",
                            "aws_secret_access_key", "mfa_serial"}}

\* C11: a resolution that returns succeeds only when the role ARN, the
\* access key, the secret key and the MFA serial are all found; when the
\* named profile or a profile its chain refers to does not exist it returns
\* the profile-not-found error; otherwise, when a field is absent, it
\* returns an error that names a field that is absent; a request it returns
\* holds four values the profiles define, none empty or defaulted.
C11_MissingProfileOrFieldFails ==
    rpc = "done" =>
        /\ is_some(request)
        /\ Chain = <<>> =>
              unwrap(request) = Failed("Failed to find a profile or source")
        /\ Chain # <<>> =>
              /\ unwrap(request).ok <=>
                    \A f \in DOMAIN Found : is_some(Found[f])
              /\ ~unwrap(request).ok =>
                    \E f \in DOMAIN Found :
                        /\ is_none(Found[f])
                        /\ unwrap(request) = Failed(ErrorNaming(f))
        /\ unwrap(request).ok =>
              \A f \in DOMAIN Found :
                  unwrap(unwrap(request).val)[f] \in DefinedValues

\* A chain of two profiles was resolved with the secret key and the MFA
\* serial absent and the role ARN and the access key found: the error names
\* the secret key.
C11_Witness ==
    /\ rpc = "done" /\ Len(Chain) = 2
    /\ is_some(Found.role) /\ is_some(Found.key)
    /\ is_none(Found.secret) /\ is_none(Found.mfa_serial)
    /\ request = Some(Failed(ErrorNaming("secret")))

---------------------------------------------------------------------------
(* C14, C15: Writer::write *)

\* C14: Writer::write sends one put per param of the bag, in the bag's
\* order and under the param's own remote path, whatever the earlier puts
\* came to: a rejected put neither ends the batch nor is sent again, no
\* param is skipped, and each put's outcome is printed under its own path.
C14_OnePutPerParamInOrder ==
    (opts.command = "Write" /\ is_some(bag)) =>
        LET b == unwrap(bag)
        IN  /\ Len(puts) <= Len(b.params)
            /\ pc = "written" => Len(puts) = Len(b.params)
            /\ Len(stdout) = Len(puts)
            /\ \A i \in 1..Len(puts) :
                  /\ puts[i].name = b.prefix \o <<"/">> \o to_lowercase(b.params[i].key)
                  /\ puts[i].value = b.params[i].value
                  /\ stdout[i].name = puts[i].name
                  /\ stdout[i].line \in {"Wrote", "Failed to write"}

\* A batch of two params ended: the first put was rejected, the second
\* accepted.
C14_Witness ==
    /\ pc = "written" /\ Len(puts) = 2
    /\ stdout[1].line = "Failed to write" /\ stdout[2].line = "Wrote"
    /\ puts[1].name # puts[2].name

\* C15: a step sends at most one put and enters the delay, accepted or
\* rejected alike; while the delay lasts no put is sent, and Writer::write
\* comes to send a put only from its start, before any put, or from a delay
\* that has elapsed.
C15_DelayBetweenPuts ==
    [][/\ puts' # puts =>
            (Len(puts') = Len(puts) + 1 /\ pc = "write" /\ pc' = "sleep")
       /\ pc = "sleep" => (puts' = puts /\ pc' = "write")
       /\ (pc' = "write" /\ pc # "write") =>
            (pc = "sleep" \/ (pc = "main" /\ puts' = <<>>))]_vars

\* The second put was sent, after the delay that followed a rejected first
\* put.
C15_Witness ==
    /\ pc = "sleep" /\ Len(puts) = 2
    /\ stdout[1].line = "Failed to write"

---------------------------------------------------------------------------
(* C19: the entries of one page *)

\* The entries of a response that arrived.
EntriesOf(r) ==
    IF r.ok /\ is_some(unwrap(r.val).parameters)
    THEN unwrap(unwrap(r.val).parameters)
    ELSE <<>>

\* C19: the step in which a page arrives appends to the bag, after the
\* params it held, one param per entry of the page that has a name and a
\* value, in the page's order; an entry without a name or without a value
\* adds nothing, and the fetch goes on or ends without an error.
C19_IncompleteEntriesAreDropped ==
    [][(Len(responses') = Len(responses) + 1 /\ responses'[Len(responses')].ok) =>
            /\ is_some(bag) /\ is_some(bag')
            /\ unwrap(bag').params =
                  unwrap(bag).params \o ParamsOf(EntriesOf(responses'[Len(responses')]))
            /\ pc' \in {"process", "done"}
            /\ pc' = "done" => (is_some(result') /\ unwrap(result').ok)]_vars

\* A page of an entry without a name, a whole entry and an entry without a
\* value arrived, and the bag holds the one param of the whole entry.
C19_Witness ==
    /\ Len(responses) = 1 /\ responses[1].ok
    /\ Len(EntriesOf(responses[1])) = 3
    /\ is_none(EntriesOf(responses[1])[1].name)
    /\ HasNameAndValue(EntriesOf(responses[1])[2])
    /\ is_none(EntriesOf(responses[1])[3].value)
    /\ is_some(bag) /\ Len(unwrap(bag).params) = 1

---------------------------------------------------------------------------
(* C18: the two formatters *)

\* The line of one param: KEY="value", or env[KEY]="value".
LineOf(format, p) ==
    IF format = "DotEnv"
    THEN p.key \o <<"=", "\"">> \o p.value \o <<"\"">>
    ELSE <<"e", "n", "v", "[">> \o p.key \o <<"]", "=", "\"">> \o p.value \o <<"\"">>

\* The lines of a param sequence, one newline between each two.
RECURSIVE JoinedLines(_, _)
JoinedLines(format, params) ==
    IF params = <<>> THEN <<>>
    ELSE IF Len(params) = 1 THEN LineOf(format, params[1])
    ELSE LineOf(format, params[1]) \o <<"\n">> \o JoinedLines(format, Tail(params))

---------------------------------------------------------------------------
(* C12, C13, C16, C17, C20: the whole run *)

MfaRun == opts.mfa \/ is_some(opts.mfa_token)

\* The profile named is missing, its chain breaks off (or never ends), or
\* one of the four values of a request is absent.
ResolutionFails ==
    \/ Chain = <<>>
    \/ \E f \in DOMAIN Found : is_none(Found[f])

Printed(line) == \E i \in 1..Len(stdout) : stdout[i].line = line

\* C12: in an MFA run whose profile resolution fails nothing remote ever
\* happens: the prompt is not printed, assume_role is not sent, no page
\* request and no put reaches the parameter store; every request of the
\* client fails unsent, no credentials are cached and nothing is emitted.
C12_FailedResolutionSendsNothing ==
    (MfaRun /\ ResolutionFails) =>
        /\ remote = <<>>
        /\ ~Printed("MFA token is required: ")
        /\ cpc \notin {"region", "prompt", "assume"}
        /\ is_none(sts) /\ is_none(role_output) /\ is_none(cached)
        /\ is_some(load) => ~unwrap(load).ok
        /\ \A i \in 1..Len(responses) : ~responses[i].ok
        /\ ~Printed("Wrote") /\ ~Printed("formatted")
        /\ pc # "done" /\ is_none(file)

\* A write of two params under a profile without an MFA serial has ended:
\* both puts failed unsent.
C12_Witness ==
    /\ MfaRun /\ opts.command = "Write" /\ pc = "exited"
    /\ request = Some(Failed("Failed to find a mfa serial to use in selected profile"))
    /\ Len(puts) = 2 /\ Len(stdout) = 2
    /\ stdout[1].line = "Failed to write" /\ stdout[2].line = "Failed to write"
    /\ remote = <<>>

\* An answer of assume_role without the credential block, or with a block
\* that lacks the access key or the secret key.
OmitsCredentialData(output) ==
    \/ is_none(output.credentials)
    \/ is_none(unwrap(output.credentials).access_key_id)
    \/ is_none(unwrap(output.credentials).secret_access_key)

\* C13: when assume_role succeeds with an answer that omits credential
\* data, provide_credentials returns the error of a malformed answer: it
\* caches no credentials and ends in nothing but that error.
C13_OmittedCredentialsAreAnError ==
    (/\ is_some(role_output) /\ unwrap(role_output).ok
     /\ OmitsCredentialData(unwrap(unwrap(role_output).val))) =>
        /\ cpc # "panicked" /\ pc # "panicked"
        /\ load = Some(Failed("Successfully assume role, but not credentials were returned"))
        /\ is_none(cached)

\* The region the precedence of C16 chooses.
ChosenRegion ==
    IF is_some(opts.region) THEN opts.region
    ELSE IF is_some(discovered) THEN discovered
    ELSE Some("us-east-1")

\* C16: the client of the parameter store and the client of the
\* federation service both work in the region of the region option when
\* it is given, else in the region discovered, else in us-east-1.
C16_RegionByPrecedence ==
    /\ is_some(conf) => unwrap(conf).region = ChosenRegion
    /\ is_some(sts) => unwrap(sts).region = ChosenRegion

\* C17: after a read whose fetch failed at some page nothing of the bag is
\* emitted: the formatter is not run, the output file is not written and
\* no formatted text is printed.
C17_FailedFetchEmitsNothing ==
    (opts.command = "Read" /\ \E i \in 1..Len(responses) : ~responses[i].ok) =>
        /\ pc \notin {"done", "process"}
        /\ result = Some(Err) /\ is_none(bag)
        /\ is_none(file)
        /\ ~Printed("formatted")
        /\ pc \in {"returned", "exited"} =>
              (Printed("Failed to get paramaters") /\ exit = Some("success"))

\* A read with an output file has ended whose second page failed after the
\* first had given a param.
C17_Witness ==
    /\ opts.command = "Read" /\ is_some(opts.out) /\ pc = "exited"
    /\ Len(responses) = 2 /\ ~responses[2].ok
    /\ Len(ParamsOf(EntriesOf(responses[1]))) = 1

\* C20 as stated: a run that waits at the prompt leaves it only when the
\* line is read; no timer ends the wait.
C20_PromptWaitsForever ==
    [][(cpc = "prompt" /\ cpc' # "prompt") => readers' = readers - 1]_vars

\* C20 as amended: a run that waits at the prompt leaves it when the line
\* is read, to go on with the token or to fail on a read error, or when
\* the load timeout of the lazy provider fails the load; the timeout sends
\* nothing, lets main take no step of its own and leaves the blocking read
\* waiting.
C20_PromptEndsByLineOrLoadTimeout ==
    [][(cpc = "prompt" /\ cpc' # "prompt") =>
          \/ /\ readers' = readers - 1
             /\ \/ cpc' = "assume" /\ is_some(mfa_token')
                \/ cpc' = "failed"
                   /\ load' = Some(Failed("could not read the token"))
          \/ /\ cpc' = "failed" /\ load' = Some(Failed("timed out"))
             /\ readers' = readers /\ remote' = remote
             /\ mainVars' = mainVars /\ cached' = cached]_vars

\* A load timed out at the prompt: no token was read, nothing was sent and
\* the blocking read still waits.
C20_Witness ==
    /\ cpc = "failed" /\ load = Some(Failed("timed out"))
    /\ Printed("MFA token is required: ")
    /\ readers = 1 /\ is_none(mfa_token) /\ remote = <<>>

---------------------------------------------------------------------------
(* C21: the put requests of Writer::write *)

\* C21: every put of Writer::write targets the bag's prefix, then '/', then
\* the param's key with each character lower-cased, carries the param's
\* value as it is, and carries the overwrite flag the writer was made with,
\* the same for every item of the batch.
C21_PutTargetsPrefixSlashLowerKey ==
    pc \in {"write", "sleep", "written"} =>
        \A i \in 1..Len(puts) :
            LET prefix == unwrap(bag).prefix
                param == unwrap(bag).params[i]
                name == puts[i].name
            IN  /\ Len(name) = Len(prefix) + 1 + Len(param.key)
                /\ SubSeq(name, 1, Len(prefix)) = prefix
                /\ name[Len(prefix) + 1] = "/"
                /\ \A j \in 1..Len(param.key) :
                       <<name[Len(prefix) + 1 + j]>> = LowerChar(param.key[j])
                /\ puts[i].value = param.value
                /\ puts[i].overwrite = opts.overwrite

\* Two params with upper-case keys were put under a prefix with the
\* overwrite flag set.
C21_Witness ==
    /\ pc = "written" /\ Len(puts) = 2
    /\ opts.overwrite /\ opts.prefix = Some(<<"/", "a">>)
    /\ unwrap(bag).params[1].key = <<"A">>
    /\ puts[1].name = <<"/", "a", "/", "a">> /\ puts[1].value = <<"x">>
    /\ unwrap(bag).params[2].key = <<"B">>
    /\ puts[2].name = <<"/", "a", "/", "b">>
    /\ puts[1].overwrite /\ puts[2].overwrite

---------------------------------------------------------------------------
(* C22: the profiles between the named profile and the root *)

\* The names strictly between the named profile and the root of the chain.
Between == {Chain[i] : i \in 2..(Len(Chain) - 1)}

\* Field f is defined by a profile between the named profile and the root
\* and by neither of these two.
OnlyBetween(f) ==
    /\ is_none(Leaf[f]) /\ is_none(Root[f])
    /\ \E n \in Between : is_some(unwrap(set[n])[f])

\* C22: on a chain of three or more profiles no field of a profile between
\* the named profile and the root reaches the request: an access key or a
\* secret key that only such a profile defines counts as absent, and the
\* resolution fails with the error of the first absent value in the order
\* role ARN, access key, secret key: the access-key error for an access key
\* defined only in between once the role ARN is found, the secret-key error
\* for a secret key defined only in between once the role ARN and the access
\* key are found.
C22_IntermediateProfilesAreNotConsulted ==
    (rpc = "done" /\ Len(Chain) >= 3) =>
        /\ is_some(request)
        /\ unwrap(request).ok =>
              \A f \in DOMAIN Found, n \in Between :
                  unwrap(unwrap(request).val)[f][1] # n
        /\ OnlyBetween("aws_access_key_id") =>
              unwrap(request) =
                  Failed(IF is_none(Leaf.role_arn) THEN ErrorNaming("role")
                         ELSE ErrorNaming("key"))
        /\ OnlyBetween("aws_secret_access_key") =>
              unwrap(request) =
                  Failed(IF is_none(Leaf.role_arn) THEN ErrorNaming("role")
                         ELSE IF is_none(Found.key) THEN ErrorNaming("key")
                         ELSE ErrorNaming("secret"))

\* A chain of three profiles was resolved whose middle profile alone
\* defines the access key, the named profile holding the role ARN and the
\* MFA serial and the root the secret key: the access key is reported
\* missing.
C22_Witness ==
    /\ rpc = "done" /\ Len(Chain) = 3
    /\ OnlyBetween("aws_access_key_id")
    /\ is_some(Leaf.role_arn) /\ is_some(Leaf.mfa_serial)
    /\ is_some(Root.aws_secret_access_key)
    /\ request = Some(Failed(ErrorNaming("key")))

---------------------------------------------------------------------------
(* C23: what a page fetch leaves alone *)

\* C23: the step in which a page arrives leaves the bag's prefix as it was
\* and the params the bag held where they were: they are the first params
\* of the bag after the step, so the count of params does not go down, and
\* every page request sent so far, the one of this step included, asked for
\* that one prefix.
C23_FetchKeepsPrefixAndParams ==
    [][(Len(responses') = Len(responses) + 1 /\ responses'[Len(responses')].ok) =>
            /\ is_some(bag) /\ is_some(bag')
            /\ unwrap(bag').prefix = unwrap(bag).prefix
            /\ Len(unwrap(bag').params) >= Len(unwrap(bag).params)
            /\ SubSeq(unwrap(bag').params, 1, Len(unwrap(bag).params)) =
                  unwrap(bag).params
            /\ \A i \in 1..Len(requests') :
                  requests'[i].path = unwrap(bag').prefix]_vars

\* Two pages arrived for an unrooted path, each with a whole entry: the bag
\* holds the param of the first page before the param of the second, and
\* both requests asked for the rooted path.
C23_Witness ==
    /\ opts.command = "Read" /\ opts.path = <<"a">>
    /\ Len(responses) = 2 /\ responses[1].ok /\ responses[2].ok
    /\ Len(ParamsOf(EntriesOf(responses[1]))) = 1
    /\ Len(ParamsOf(EntriesOf(responses[2]))) = 1
    /\ is_some(bag) /\ Len(unwrap(bag).params) = 2
    /\ unwrap(bag).params[1] = ParamsOf(EntriesOf(responses[1]))[1]
    /\ unwrap(bag).prefix = <<"/", "a">>
    /\ requests[1].path = <<"/", "a">> /\ requests[2].path = <<"/", "a">>

---------------------------------------------------------------------------
(* C24: the exit status of a read *)

\* C24: once main has returned from a read whose fetch failed, the last
\* thing on standard output is the failure notice, no file was written and
\* the exit status is success; a read whose fetch succeeded and whose text
\* went to standard output or into the file has that same status, and no
\* notice.
C24_FailedReadExitsWithSuccess ==
    (opts.command = "Read" /\ pc \in {"returned", "exited"}) =>
        /\ is_some(result)
        /\ ~unwrap(result).ok =>
              /\ stdout # <<>>
              /\ stdout[Len(stdout)].line = "Failed to get paramaters"
              /\ is_none(file)
              /\ exit = Some("success")
        /\ (unwrap(result).ok /\ (is_none(opts.out) \/ is_some(file))) =>
              /\ ~Printed("Failed to get paramaters")
              /\ exit = Some("success")

\* A read without an output file has ended whose first page request was
\* sent and failed: the notice is all there is on standard output, and the
\* status is success.
C24_Witness ==
    /\ opts.command = "Read" /\ is_none(opts.out) /\ pc = "exited"
    /\ remote = <<"GetParametersByPath">>
    /\ result = Some(Err)
    /\ stdout = <<[line |-> "Failed to get paramaters"]>>
    /\ exit = Some("success")

===========================================================================
